---- MODULE Spec2Model ----
(***************************************************************************)
(* Stock portfolio tracker: the ledger (transactions.py) and the valuation *)
(* engine (analysis.py).                                                   *)
(*                                                                         *)
(* A Python dict keeps insertion order, and the order decides which entry  *)
(* a valuation loop fails on first, so a portfolio is a sequence of        *)
(* [symbol, qty] entries with pairwise distinct symbols.  The stocks dict  *)
(* is only ever indexed by key, so it is a function on its key set.        *)
(*                                                                         *)
(* Python raises ValueError / KeyError / TypeError with a message; the     *)
(* model names each raise site by the failure kind the design gives it.    *)
(* Prices are small integers, on which double arithmetic is exact.         *)
(***************************************************************************)
EXTENDS Integers, Sequences, FiniteSets, TLC

VARIABLES portfolio, stocks, last, prev

vars == <<portfolio, stocks, last, prev>>

----------------------------------------------------------------------------
(* Bounds of the model *)

\* largest quantity passed to buy / sell
MaxQty == 3
\* largest share count a holding reaches (buy is not taken beyond it)
MaxHeld == 3
\* largest price of a stock record
MaxPrice == 2
\* largest share count of a portfolio handed to the valuation functions
MaxShares == 2

Symbols == {"AAPL", "MSFT"}
PriceKeys == {"initial_price", "current_price"}

\* quantities a caller may pass: negative, zero and positive ones
QtyInputs == (0 - 1) .. MaxQty

----------------------------------------------------------------------------
(* dict operations on a portfolio *)

Keys(d) == {d[i].symbol : i \in DOMAIN d}

\* symbol in portfolio
Has(d, s) == s \in Keys(d)

IndexOf(d, s) == CHOOSE i \in DOMAIN d : d[i].symbol = s

\* portfolio[symbol]
Lookup(d, s) == d[IndexOf(d, s)].qty

\* portfolio.get(symbol, default)
Get(d, s, default) == IF Has(d, s) THEN Lookup(d, s) ELSE default

PutFresh(d, s, v) == <<[symbol |-> s, qty |-> v]>>

\* portfolio[symbol] = v : an existing key keeps its place, a new one is appended
Put(d, s, v) ==
    IF Has(d, s)
    THEN [i \in DOMAIN d |-> IF d[i].symbol = s THEN [symbol |-> s, qty |-> v] ELSE d[i]]
    ELSE Append(d, [symbol |-> s, qty |-> v])

\* del portfolio[symbol]
Del(d, s) == SelectSeq(d, LAMBDA e : e.symbol # s)

NoDuplicates(d) == \A i, j \in DOMAIN d : d[i].symbol = d[j].symbol => i = j

----------------------------------------------------------------------------
(* transactions.py *)

Ok(p) == [err |-> "ok", portfolio |-> p]
Raise(kind, p) == [err |-> kind, portfolio |-> p]

BuyQtyRejectedNegativeOnly(qty) == qty < 0

\* 1. Validation: Is the quantity positive?
BuyQtyRejected(qty) == qty <= 0

BuyNewCountOverwrites(current_qty, qty) == qty

\* portfolio[symbol] = current_qty + qty
BuyNewCount(current_qty, qty) == current_qty + qty

buyUnlisted(p, st, symbol, qty) ==
    IF BuyQtyRejected(qty) THEN Raise("InvalidQuantity", p)
    ELSE Ok(Put(p, symbol, BuyNewCount(Get(p, symbol, 0), qty)))

buy(p, st, symbol, qty) ==
    IF BuyQtyRejected(qty) THEN Raise("InvalidQuantity", p)
    ELSE IF symbol \notin DOMAIN st THEN Raise("UnknownSymbol", p)
    ELSE Ok(Put(p, symbol, BuyNewCount(Get(p, symbol, 0), qty)))

\* 1. Validation: Is the quantity positive?
SellQtyRejected(qty) == qty <= 0

\* 2. Validation: Does the user own this stock?
SellNotOwned(p, symbol) == ~Has(p, symbol)

SellInsufficientOffByOne(held, qty) == held <= qty

\* 3. Validation: Does the user have ENOUGH shares to sell?
SellInsufficient(held, qty) == held < qty

SellNewCountByOne(held, qty) == held - 1

\* 4. Logic: portfolio[symbol] -= qty
SellNewCount(held, qty) == held - qty

SellCleanupMissing(p, symbol) == p

\* 5. Cleanup: If quantity reaches 0, remove the entry completely
SellCleanup(p, symbol) == IF Lookup(p, symbol) = 0 THEN Del(p, symbol) ELSE p

sellListedOnly(p, st, symbol, qty) ==
    IF SellQtyRejected(qty) THEN Raise("InvalidQuantity", p)
    ELSE IF symbol \notin DOMAIN st THEN Raise("UnknownSymbol", p)
    ELSE IF SellNotOwned(p, symbol) THEN Raise("NotOwned", p)
    ELSE IF SellInsufficient(Lookup(p, symbol), qty) THEN Raise("InsufficientShares", p)
    ELSE Ok(SellCleanup(Put(p, symbol, SellNewCount(Lookup(p, symbol), qty)), symbol))

\* stocks is accepted and never read
sell(p, st, symbol, qty) ==
    IF SellQtyRejected(qty) THEN Raise("InvalidQuantity", p)
    ELSE IF SellNotOwned(p, symbol) THEN Raise("NotOwned", p)
    ELSE IF SellInsufficient(Lookup(p, symbol), qty) THEN Raise("InsufficientShares", p)
    ELSE Ok(SellCleanup(Put(p, symbol, SellNewCount(Lookup(p, symbol), qty)), symbol))

----------------------------------------------------------------------------
(* analysis.py *)

\* a float result as an exact fraction
Rat(n, d) == [num |-> n, den |-> d]

Returns(v) == [err |-> "ok", returned |-> TRUE, value |-> v]
Raises(kind) == [err |-> kind, returned |-> FALSE, value |-> Rat(0, 1)]

\* the portfolio loop of _validate_inputs: quantities must be > 0
\* (symbols are strings and quantities integers in every modelled portfolio)
BadHolding(p) == \E i \in DOMAIN p : p[i].qty <= 0

\* the stocks loop of _validate_inputs: every record must be a dict; prices
\* are not looked at here
BadRecord(st) == \E s \in DOMAIN st : ~st[s].isdict

validate_inputs(p, st) ==
    IF BadHolding(p) THEN "InvalidHolding"
    ELSE IF BadRecord(st) THEN "TypeMismatch"
    ELSE "ok"

PriceAcceptedAlways(v) == FALSE

\* price < 0
PriceRejected(v) == v < 0

get_priceDefaultZero(st, symbol, price_key) ==
    IF symbol \notin DOMAIN st THEN Returns(0)
    ELSE IF price_key \notin DOMAIN st[symbol].fields THEN Raises("MissingField")
    ELSE IF ~st[symbol].fields[price_key].isnum THEN Raises("TypeMismatch")
    ELSE IF PriceRejected(st[symbol].fields[price_key].v) THEN Raises("InvalidPrice")
    ELSE Returns(st[symbol].fields[price_key].v)

get_price(st, symbol, price_key) ==
    IF symbol \notin DOMAIN st THEN Raises("UnknownSymbol")
    ELSE IF price_key \notin DOMAIN st[symbol].fields THEN Raises("MissingField")
    ELSE IF ~st[symbol].fields[price_key].isnum THEN Raises("TypeMismatch")
    ELSE IF PriceRejected(st[symbol].fields[price_key].v) THEN Raises("InvalidPrice")
    ELSE Returns(st[symbol].fields[price_key].v)

\* for symbol, qty in portfolio.items(): total += qty * price, from entry i on
RECURSIVE ValueLoop(_, _, _, _, _)
ValueLoop(p, st, price_key, i, total) ==
    IF i > Len(p) THEN Returns(Rat(total, 1))
    ELSE LET price == get_price(st, p[i].symbol, price_key) IN
         IF price.err # "ok" THEN Raises(price.err)
         ELSE ValueLoop(p, st, price_key, i + 1, total + p[i].qty * price.value)

portfolio_value(p, st, price_key) ==
    IF validate_inputs(p, st) # "ok" THEN Raises(validate_inputs(p, st))
    ELSE ValueLoop(p, st, price_key, 1, 0)

portfolio_cost_basis(p, st, price_key) == portfolio_value(p, st, price_key)

RoiQuotientZeroShortcut(current_val, initial_val) ==
    IF initial_val = 0
    THEN IF current_val = 0 THEN Returns(Rat(0, 1)) ELSE Raises("DivisionByZero")
    ELSE Returns(Rat((current_val - initial_val) * 100, initial_val))

RoiQuotientByCurrent(current_val, initial_val) ==
    IF current_val = 0 THEN Raises("DivisionByZero")
    ELSE Returns(Rat((current_val - initial_val) * 100, current_val))

\* (current_val - initial_val) / initial_val * 100.0 : a float division by
\* 0.0 raises ZeroDivisionError, also for 0.0 / 0.0
RoiQuotient(current_val, initial_val) ==
    IF initial_val = 0 THEN Raises("DivisionByZero")
    ELSE Returns(Rat((current_val - initial_val) * 100, initial_val))

roi_percentNoEmptyCheck(p, st) ==
    IF validate_inputs(p, st) # "ok" THEN Raises(validate_inputs(p, st))
    ELSE LET current_val == portfolio_value(p, st, "current_price")
             initial_val == portfolio_cost_basis(p, st, "initial_price")
         IN  IF current_val.err # "ok" THEN Raises(current_val.err)
             ELSE IF initial_val.err # "ok" THEN Raises(initial_val.err)
             ELSE RoiQuotient(current_val.value.num, initial_val.value.num)

roi_percent(p, st) ==
    IF validate_inputs(p, st) # "ok" THEN Raises(validate_inputs(p, st))
    ELSE IF p = <<>> THEN Raises("EmptyPortfolio")
    ELSE LET current_val == portfolio_value(p, st, "current_price")
             initial_val == portfolio_cost_basis(p, st, "initial_price")
         IN  IF current_val.err # "ok" THEN Raises(current_val.err)
             ELSE IF initial_val.err # "ok" THEN Raises(initial_val.err)
             ELSE RoiQuotient(current_val.value.num, initial_val.value.num)

----------------------------------------------------------------------------
(* The session: one caller, one call at a time *)

NoDict == [k \in {} |-> 0]

\* no CSV file was read
NoFile == [fieldnames |-> {}, rows |-> <<>>]

\* outcome of a call: its arguments, the portfolio and stocks it was given,
\* the failure kind raised ("ok" when none) and the value returned, if any
Call(op, symbol, qty, key, err, returned, value) ==
    [op |-> op, symbol |-> symbol, qty |-> qty, key |-> key, err |-> err,
     returned |-> returned, value |-> value, before |-> portfolio, catalog |-> stocks,
     file |-> NoFile]

NoCall == [op |-> "none", symbol |-> "", qty |-> 0, key |-> "", err |-> "ok",
           returned |-> FALSE, value |-> Rat(0, 1), before |-> <<>>, catalog |-> NoDict,
           file |-> NoFile]

\* a stock record with both prices
Record(i, c) ==
    [isdict |-> TRUE,
     fields |-> [k \in PriceKeys |->
                    [isnum |-> TRUE, v |-> IF k = "initial_price" THEN i ELSE c]]]

\* catalogs a session trades against: any set of listed symbols
SessionCatalogs == UNION {[K -> {Record(1, 2)}] : K \in SUBSET Symbols}

\* portfolios that satisfy the ledger contract (only tickers with qty > 0)
HeldEntries == {[symbol |-> s, qty |-> q] : s \in Symbols, q \in 1 .. MaxHeld}

ValidPortfolios ==
    {d \in UNION {[1 .. n -> HeldEntries] : n \in 0 .. Cardinality(Symbols)} :
        NoDuplicates(d)}

Trade(op, symbol, qty, out) ==
    /\ portfolio' = out.portfolio
    /\ last' = Call(op, symbol, qty, "", out.err, out.err = "ok", Rat(0, 1))
    /\ prev' = last
    /\ UNCHANGED stocks

Buy ==
    \E symbol \in Symbols, qty \in QtyInputs :
        /\ Get(portfolio, symbol, 0) + qty <= MaxHeld
        /\ Trade("buy", symbol, qty, buy(portfolio, stocks, symbol, qty))

Sell ==
    \E symbol \in Symbols, qty \in QtyInputs :
        Trade("sell", symbol, qty, sell(portfolio, stocks, symbol, qty))

\* a session that starts with an empty portfolio
Init ==
    /\ portfolio = <<>>
    /\ stocks \in SessionCatalogs
    /\ last = NoCall
    /\ prev = NoCall

\* a session whose portfolio was loaded from storage
InitLoaded ==
    /\ portfolio \in ValidPortfolios
    /\ stocks \in SessionCatalogs
    /\ last = NoCall
    /\ prev = NoCall

Next == Buy \/ Sell

Spec == Init /\ [][Next]_vars

SpecLoaded == InitLoaded /\ [][Next]_vars

----------------------------------------------------------------------------
(* The valuation functions, called on any portfolio and any stocks dict *)

\* a price field's value: a number, or something that is no number
Cells == {[isnum |-> TRUE, v |-> n] : n \in (0 - 1) .. MaxPrice}
            \cup {[isnum |-> FALSE, v |-> 0]}

\* a stocks value: a dict with any of the price fields, or something that is no dict
PriceInfos ==
    {[isdict |-> TRUE, fields |-> f] : f \in UNION {[F -> Cells] : F \in SUBSET PriceKeys}}
        \cup {[isdict |-> FALSE, fields |-> NoDict]}

AnyCatalogs == UNION {[K -> PriceInfos] : K \in SUBSET Symbols}

\* portfolios with integer quantities, a quantity of 0 included
AnyEntries == {[symbol |-> s, qty |-> q] : s \in Symbols, q \in 0 .. MaxShares}

AnyPortfolios ==
    {d \in UNION {[1 .. n -> AnyEntries] : n \in 0 .. Cardinality(Symbols)} :
        NoDuplicates(d)}

Valuation(op, price_key, out) ==
    /\ last' = Call(op, "", 0, price_key, out.err, out.returned, out.value)
    /\ UNCHANGED <<portfolio, stocks, prev>>

Value ==
    \E price_key \in PriceKeys :
        Valuation("value", price_key, portfolio_value(portfolio, stocks, price_key))

CostBasis ==
    Valuation("cost_basis", "initial_price",
              portfolio_cost_basis(portfolio, stocks, "initial_price"))

Roi == Valuation("roi", "", roi_percent(portfolio, stocks))

InitValuation ==
    /\ portfolio \in AnyPortfolios
    /\ stocks \in AnyCatalogs
    /\ last = NoCall
    /\ prev = NoCall

NextValuation == Value \/ CostBasis \/ Roi

SpecValuation == InitValuation /\ [][NextValuation]_vars

----------------------------------------------------------------------------
(* data_io.py: the portfolio CSV *)

\* the text of a symbol cell
RawSymbols == {" aapl", "MSFT", " "}

\* row["symbol"].strip().upper()
StripUpper(raw) ==
    CASE raw = " aapl" -> "AAPL"
      [] raw = " " -> ""
      [] OTHER -> raw

\* the text of a shares cell: int() parses it to n, or raises ValueError
ShareCells == {[isint |-> TRUE, n |-> k] : k \in (0 - 1) .. MaxShares}
                 \cup {[isint |-> FALSE, n |-> 0]}

LoadKeepsRowFromZero(shares) == shares >= 0

\* Contract in analysis/visualization: only keep qty > 0
LoadKeepsRow(shares) == shares > 0

\* for row in reader, from row i on, with the dict built so far
RECURSIVE LoadLoop(_, _, _)
LoadLoop(rows, i, acc) ==
    IF i > Len(rows) THEN Ok(acc)
    ELSE LET symbol == StripUpper(rows[i].symbol) IN
         IF symbol = "" THEN LoadLoop(rows, i + 1, acc)
         ELSE IF ~rows[i].shares.isint THEN Raise("InvalidShares", <<>>)
         ELSE IF LoadKeepsRow(rows[i].shares.n)
              THEN LoadLoop(rows, i + 1, Put(acc, symbol, rows[i].shares.n))
              ELSE LoadLoop(rows, i + 1, acc)

load_portfolio(file) ==
    IF ~({"symbol", "shares"} \subseteq file.fieldnames) THEN Raise("MissingColumn", <<>>)
    ELSE LoadLoop(file.rows, 1, <<>>)

StoredRows == {[symbol |-> s, shares |-> c] : s \in RawSymbols, c \in ShareCells}

\* CSV files with the expected header and up to one row per listed symbol,
\* and a file that lacks the shares column
StoredFiles ==
    {[fieldnames |-> {"symbol", "shares"}, rows |-> rows] :
        rows \in UNION {[1 .. n -> StoredRows] : n \in 0 .. Cardinality(Symbols)}}
      \cup {[fieldnames |-> {"symbol"}, rows |-> <<>>]}

\* Load portfolio: the loaded dict replaces the session's portfolio; when the
\* load raises, the portfolio is left as it was
Load ==
    \E file \in StoredFiles :
        LET out == load_portfolio(file) IN
        /\ portfolio' = IF out.err = "ok" THEN out.portfolio ELSE portfolio
        /\ last' = [Call("load", "", 0, "", out.err, out.err = "ok", Rat(0, 1))
                       EXCEPT !.file = file]
        /\ UNCHANGED <<stocks, prev>>

\* a session that lists one stock and starts with an empty portfolio
InitStorage ==
    /\ portfolio = <<>>
    /\ stocks = [s \in {"AAPL"} |-> Record(1, 2)]
    /\ last = NoCall
    /\ prev = NoCall

NextStorage == Load \/ Value \/ CostBasis \/ Roi

SpecStorage == InitStorage /\ [][NextStorage]_vars

----------------------------------------------------------------------------
(* menu.py: the CLI loop *)

\* TEST_MODE: the hardcoded stocks
MenuStocks ==
    [s \in Symbols |-> IF s = "AAPL" THEN Record(150, 165) ELSE Record(300, 310)]

\* d.update(other): the entries of other, in order, from entry i on
RECURSIVE DictUpdate(_, _, _)
DictUpdate(d, other, i) ==
    IF i > Len(other) THEN d
    ELSE DictUpdate(Put(d, other[i].symbol, other[i].qty), other, i + 1)

\* buy and sell return the dict object they were given (return portfolio)
ReturnsItsArgument == TRUE

\* portfolio.clear(); portfolio.update(updated).  When updated is the object
\* that portfolio names, clear() has emptied it before update() reads it.
ClearThenUpdate(updated, same_object) ==
    LET cleared == <<>> IN
    DictUpdate(cleared, IF same_object THEN cleared ELSE updated, 1)

\* a menu action under _safe_call: a raised error leaves the portfolio as
\* the call left it, and buy / sell raise before they change anything
MenuTrade(op, symbol, qty, out) ==
    /\ portfolio' = IF out.err = "ok"
                    THEN ClearThenUpdate(out.portfolio, ReturnsItsArgument)
                    ELSE out.portfolio
    /\ last' = Call(op, symbol, qty, "", out.err, out.err = "ok", Rat(0, 1))
    /\ UNCHANGED <<stocks, prev>>

\* choice 2: prompt_symbol yields a listed symbol, prompt_positive_int a qty >= 1
MenuBuy ==
    \E symbol \in DOMAIN stocks, qty \in 1 .. MaxQty :
        /\ Get(portfolio, symbol, 0) + qty <= MaxHeld
        /\ MenuTrade("buy", symbol, qty, buy(portfolio, stocks, symbol, qty))

\* choice 3
MenuSell ==
    \E symbol \in DOMAIN stocks, qty \in 1 .. MaxQty :
        MenuTrade("sell", symbol, qty, sell(portfolio, stocks, symbol, qty))

InitMenu ==
    /\ portfolio = <<>>
    /\ stocks = MenuStocks
    /\ last = NoCall
    /\ prev = NoCall

NextMenu == MenuBuy \/ MenuSell \/ Load

SpecMenu == InitMenu /\ [][NextMenu]_vars

----------------------------------------------------------------------------
(* Python float: IEEE-754 binary64, round to nearest, ties to even *)

\* bits of the significand of a float
Precision == 53

\* A non-negative float is held exactly, as a whole number of units of
\* 2^-FracBits, written in digits of LimbWidth bits, lowest digit first,
\* without leading zero digits (zero is the empty sequence).
FracBits == Precision + 11
LimbWidth == 15
Base == 2 ^ LimbWidth

RECURSIVE Norm(_)
Norm(a) ==
    IF a = <<>> THEN <<>>
    ELSE IF a[Len(a)] # 0 THEN a
    ELSE Norm(SubSeq(a, 1, Len(a) - 1))

\* a whole number below Base
NatLimbs(n) == IF n = 0 THEN <<>> ELSE <<n>>

Limb(a, i) == IF i \in DOMAIN a THEN a[i] ELSE 0

RECURSIVE AddCarry(_, _, _, _)
AddCarry(a, b, i, carry) ==
    IF i > Len(a) /\ i > Len(b)
    THEN NatLimbs(carry)
    ELSE LET s == Limb(a, i) + Limb(b, i) + carry IN
         <<s % Base>> \o AddCarry(a, b, i + 1, s \div Base)

\* a + b, exactly
AddLimbs(a, b) == AddCarry(a, b, 1, 0)

RECURSIVE TimesCarry(_, _, _, _)
TimesCarry(q, a, i, carry) ==
    IF i > Len(a)
    THEN NatLimbs(carry)
    ELSE LET s == q * a[i] + carry IN
         <<s % Base>> \o TimesCarry(q, a, i + 1, s \div Base)

\* q * a, exactly, for a whole number 0 <= q < Base
TimesLimbs(q, a) == Norm(TimesCarry(q, a, 1, 0))

\* 2^d
Pow2(d) ==
    [i \in 1 .. (d \div LimbWidth) + 1 |->
        IF i = (d \div LimbWidth) + 1 THEN 2 ^ (d % LimbWidth) ELSE 0]

\* number of binary digits of a
BitLen(a) ==
    IF a = <<>> THEN 0
    ELSE LimbWidth * (Len(a) - 1)
         + (CHOOSE k \in 1 .. LimbWidth : 2 ^ (k - 1) <= a[Len(a)] /\ a[Len(a)] < 2 ^ k)

\* binary digit d of a, the lowest being digit 0
BitAt(a, d) == (Limb(a, (d \div LimbWidth) + 1) \div (2 ^ (d % LimbWidth))) % 2

\* a with its d lowest binary digits cleared
ClearLow(a, d) ==
    [i \in 1 .. Len(a) |->
        IF i <= d \div LimbWidth THEN 0
        ELSE IF i = (d \div LimbWidth) + 1 THEN a[i] - (a[i] % (2 ^ (d % LimbWidth)))
        ELSE a[i]]

\* some of the d lowest binary digits of a is 1
AnyLow(a, d) == a # ClearLow(a, d)

\* The float nearest to the number a plus, if sticky, a nonzero amount below
\* one unit: the top Precision binary digits are kept, and rounded up when
\* the rest is above half of the last kept digit, or is half and that
\* digit is odd.
RoundDouble(a, sticky) ==
    IF BitLen(a) <= Precision THEN a
    ELSE LET d     == BitLen(a) - Precision
             half  == BitAt(a, d - 1) = 1
             above == sticky \/ AnyLow(a, d - 1)
             up    == half /\ (above \/ BitAt(a, d) = 1)
         IN  IF up THEN AddLimbs(ClearLow(a, d), Pow2(d)) ELSE ClearLow(a, d)

\* total + x and qty * price as Python computes them
FloatAdd(a, b) == RoundDouble(AddLimbs(a, b), FALSE)
FloatMul(q, a) == RoundDouble(TimesLimbs(q, a), FALSE)

\* a divided by ten, from digit i down: quotient digits and remainder
RECURSIVE DivTen(_, _, _)
DivTen(a, i, rem) ==
    IF i = 0 THEN [q |-> <<>>, r |-> rem]
    ELSE LET cur  == rem * Base + a[i]
             rest == DivTen(a, i - 1, cur % 10)
         IN  [q |-> Append(rest.q, cur \div 10), r |-> rest.r]

\* float(text) for the decimal text of t tenths, 0 <= t < Base
ParseTenths(t) ==
    LET scaled == TimesLimbs(t, Pow2(FracBits))
        d      == DivTen(scaled, Len(scaled), 0)
    IN  RoundDouble(Norm(d.q), d.r # 0)

----------------------------------------------------------------------------
(* Valuation of a catalog read by load_stocks: prices are floats *)

MaxLots == 6
MaxTenths == 3

\* load_stocks: the record of a row whose price cells read i and c tenths;
\* a negative price is refused there, so every price held is >= 0
DoubleRecord(i, c) ==
    [isdict |-> TRUE,
     fields |-> [k \in PriceKeys |->
                    [isnum |-> TRUE,
                     v |-> ParseTenths(IF k = "initial_price" THEN i ELSE c)]]]

LoadedCatalogs ==
    {[s \in Symbols |-> IF s = "AAPL" THEN DoubleRecord(i, c) ELSE DoubleRecord(c, i)] :
        i \in 0 .. MaxTenths, c \in 0 .. MaxTenths}

\* _get_price on float prices; price < 0 is false of every float held
get_priceDouble(st, symbol, price_key) ==
    IF symbol \notin DOMAIN st THEN Raises("UnknownSymbol")
    ELSE IF price_key \notin DOMAIN st[symbol].fields THEN Raises("MissingField")
    ELSE IF ~st[symbol].fields[price_key].isnum THEN Raises("TypeMismatch")
    ELSE Returns(st[symbol].fields[price_key].v)

HoldingValueUnitPrice(qty, price) == price

\* qty * price
HoldingValue(qty, price) == FloatMul(qty, price)

\* total += qty * price, from entry i on
RECURSIVE ValueLoopDouble(_, _, _, _, _)
ValueLoopDouble(p, st, price_key, i, total) ==
    IF i > Len(p) THEN Returns(total)
    ELSE LET price == get_priceDouble(st, p[i].symbol, price_key) IN
         IF price.err # "ok" THEN Raises(price.err)
         ELSE ValueLoopDouble(p, st, price_key, i + 1,
                              FloatAdd(total, HoldingValue(p[i].qty, price.value)))

\* total = 0.0
portfolio_valueDouble(p, st, price_key) ==
    IF validate_inputs(p, st) # "ok" THEN Raises(validate_inputs(p, st))
    ELSE ValueLoopDouble(p, st, price_key, 1, <<>>)

portfolio_cost_basisDouble(p, st, price_key) == portfolio_valueDouble(p, st, price_key)

RECURSIVE SharesFrom(_, _)
SharesFrom(p, i) == IF i > Len(p) THEN 0 ELSE p[i].qty + SharesFrom(p, i + 1)

ValueDouble ==
    \E price_key \in PriceKeys :
        Valuation("value", price_key, portfolio_valueDouble(portfolio, stocks, price_key))

CostBasisDouble ==
    Valuation("cost_basis", "initial_price",
              portfolio_cost_basisDouble(portfolio, stocks, "initial_price"))

BuyLots ==
    \E symbol \in Symbols, qty \in 1 .. MaxLots :
        /\ SharesFrom(portfolio, 1) + qty <= MaxLots
        /\ LET out == buy(portfolio, stocks, symbol, qty) IN
           /\ portfolio' = out.portfolio
           /\ last' = Call("buy", symbol, qty, "", out.err, out.err = "ok", Rat(0, 1))
           /\ UNCHANGED <<stocks, prev>>

InitDouble ==
    /\ portfolio = <<>>
    /\ stocks \in LoadedCatalogs
    /\ last = NoCall
    /\ prev = NoCall

NextDouble == ValueDouble \/ CostBasisDouble \/ BuyLots

SpecDouble == InitDouble /\ [][NextDouble]_vars

----------------------------------------------------------------------------
(* Claims about the ledger *)

\* entries other than symbol s are the same in portfolios a and b
OthersSame(a, b, s) ==
    \A t \in Keys(a) \cup Keys(b) :
        t # s => Has(a, t) /\ Has(b, t) /\ Lookup(a, t) = Lookup(b, t)

\* C1: starting from an empty ledger, after any sequence of Buy and Sell calls
\* (failing ones and zero or negative quantities included) every entry of the
\* ledger holds a strictly positive count, and no symbol is entered twice.
C1_LedgerInvariant ==
    /\ \A i \in DOMAIN portfolio : portfolio[i].qty > 0
    /\ NoDuplicates(portfolio)

\* a sale of a whole holding has removed the entry and left another one behind
C1_Witness ==
    /\ last.op = "sell" /\ last.err = "ok"
    /\ Has(last.before, last.symbol)
    /\ Lookup(last.before, last.symbol) = last.qty
    /\ ~Has(portfolio, last.symbol)
    /\ portfolio # <<>>

\* C2: on a ledger that satisfies the ledger invariant, Buy(symbol, qty) of a
\* listed symbol with qty >= 1 followed by Sell(symbol, qty) succeeds and
\* yields the ledger as it was before the Buy.
C2_BuyThenSellRestores ==
    ( /\ prev.op = "buy" /\ prev.err = "ok"
      /\ last.op = "sell"
      /\ last.symbol = prev.symbol /\ last.qty = prev.qty )
    => /\ last.err = "ok"
       /\ portfolio = prev.before

\* the round trip on a symbol that was held beforehand, beside another holding
C2_Witness ==
    /\ prev.op = "buy" /\ prev.err = "ok"
    /\ last.op = "sell" /\ last.err = "ok"
    /\ last.symbol = prev.symbol /\ last.qty = prev.qty
    /\ Has(prev.before, prev.symbol)
    /\ Len(prev.before) = 2

\* C3: Sell fails with InvalidQuantity when qty <= 0, otherwise with NotOwned
\* when the symbol is not held, otherwise with InsufficientShares when the
\* held count is below qty; it fails in no other case, and a failing Sell
\* leaves the ledger as it was.
C3_SellFailures ==
    last.op = "sell" =>
        /\ last.err =
              IF last.qty <= 0 THEN "InvalidQuantity"
              ELSE IF ~Has(last.before, last.symbol) THEN "NotOwned"
              ELSE IF Lookup(last.before, last.symbol) < last.qty THEN "InsufficientShares"
              ELSE "ok"
        /\ last.err # "ok" => portfolio = last.before

\* a sale of more shares than are held, on a ledger that holds the symbol
C3_Witness ==
    /\ last.op = "sell" /\ last.err = "InsufficientShares"
    /\ Has(portfolio, last.symbol)
    /\ portfolio = last.before

\* C4: Buy fails with InvalidQuantity when qty <= 0 and with UnknownSymbol
\* when the symbol is not listed in the catalog; it fails in no other case,
\* and a failing Buy leaves the ledger as it was.
C4_BuyFailures ==
    last.op = "buy" =>
        /\ last.err =
              IF last.qty <= 0 THEN "InvalidQuantity"
              ELSE IF last.symbol \notin DOMAIN stocks THEN "UnknownSymbol"
              ELSE "ok"
        /\ last.err # "ok" => portfolio = last.before

\* a purchase of an unlisted symbol on a ledger that holds something
C4_Witness ==
    /\ last.op = "buy" /\ last.err = "UnknownSymbol"
    /\ portfolio # <<>>
    /\ portfolio = last.before

\* C5: a successful Sell(symbol, qty) lowers the symbol's count by exactly
\* qty; the entry is removed when the count reaches 0 and kept with the new
\* count otherwise; every other entry is unchanged.
C5_SellEffect ==
    (last.op = "sell" /\ last.err = "ok") =>
        LET left == Lookup(last.before, last.symbol) - last.qty IN
        /\ left = 0 => ~Has(portfolio, last.symbol)
        /\ left # 0 => Has(portfolio, last.symbol) /\ Lookup(portfolio, last.symbol) = left
        /\ OthersSame(last.before, portfolio, last.symbol)

\* a sale of part of a holding, beside another holding
C5_Witness ==
    /\ last.op = "sell" /\ last.err = "ok"
    /\ Has(portfolio, last.symbol)
    /\ last.qty >= 2
    /\ Len(portfolio) = 2

\* C6: a successful Buy(symbol, qty) sets the symbol's count to its former
\* count (0 when it was not held) plus qty, creating the entry when absent,
\* and leaves every other entry unchanged; a repeated identical Buy adds qty
\* again.
C6_BuyEffect ==
    (last.op = "buy" /\ last.err = "ok") =>
        /\ Has(portfolio, last.symbol)
        /\ Lookup(portfolio, last.symbol) = Get(last.before, last.symbol, 0) + last.qty
        /\ OthersSame(last.before, portfolio, last.symbol)
        /\ (prev.op = "buy" /\ prev.err = "ok"
            /\ prev.symbol = last.symbol /\ prev.qty = last.qty)
           => Lookup(portfolio, last.symbol)
                 = Get(prev.before, last.symbol, 0) + 2 * last.qty

\* two identical purchases in a row, beside another holding
C6_Witness ==
    /\ last.op = "buy" /\ last.err = "ok"
    /\ prev.op = "buy" /\ prev.err = "ok"
    /\ prev.symbol = last.symbol /\ prev.qty = last.qty
    /\ Len(prev.before) = 1 /\ ~Has(prev.before, last.symbol)

\* C7: the outcome of Sell, its failure kind and the resulting ledger, is the
\* same against every catalog; a held symbol can be sold while the catalog
\* does not list it.
C7_SellIgnoresCatalog ==
    last.op = "sell" =>
        \A c \in SessionCatalogs :
            sell(last.before, c, last.symbol, last.qty)
               = [err |-> last.err, portfolio |-> portfolio]

\* a successful sale of a symbol the session's catalog does not list
C7_Witness ==
    /\ last.op = "sell" /\ last.err = "ok"
    /\ last.symbol \notin DOMAIN stocks
    /\ stocks # NoDict

----------------------------------------------------------------------------
(* Claims about the valuation functions *)

IsValuation == last.op \in {"value", "cost_basis"}

\* the call was given a portfolio and a stocks dict of the agreed shapes
ShapesValid == (\A i \in DOMAIN last.before : last.before[i].qty > 0)
                  /\ (\A s \in DOMAIN last.catalog : last.catalog[s].isdict)

\* some record of the catalog, of a held or an unheld symbol, holds a
\* negative price in some field
SomeNegativePrice ==
    \E s \in DOMAIN last.catalog :
        \E k \in DOMAIN last.catalog[s].fields :
            last.catalog[s].fields[k].isnum /\ last.catalog[s].fields[k].v < 0

\* what the look-up of the i-th held entry's price meets, read off the catalog
EntryKind(i, k) ==
    LET s == last.before[i].symbol IN
    IF s \notin DOMAIN last.catalog THEN "UnknownSymbol"
    ELSE IF k \notin DOMAIN last.catalog[s].fields THEN "MissingField"
    ELSE IF ~last.catalog[s].fields[k].isnum THEN "TypeMismatch"
    ELSE IF last.catalog[s].fields[k].v < 0 THEN "InvalidPrice"
    ELSE "ok"

SomeEntryFails(k) == \E i \in DOMAIN last.before : EntryKind(i, k) # "ok"

\* the first held entry, in the portfolio's order, whose look-up fails
FirstFailing(k) ==
    CHOOSE i \in DOMAIN last.before :
        /\ EntryKind(i, k) # "ok"
        /\ \A j \in 1 .. (i - 1) : EntryKind(j, k) = "ok"

Untouched == portfolio = last.before /\ stocks = last.catalog

\* C8 as stated: on inputs of the agreed shapes, a negative price anywhere in
\* the catalog, for a held or an unheld symbol and in either price field,
\* makes Value, CostBasis and ROI fail with InvalidPrice and return no sum.
C8_WholeCatalogValidated ==
    (last.op \in {"value", "cost_basis", "roi"} /\ ShapesValid /\ SomeNegativePrice)
        => last.err = "InvalidPrice" /\ ~last.returned

\* C8, amended: Value and CostBasis check a price only when they look it up.
\* On inputs of the agreed shapes the call fails with InvalidPrice exactly
\* when the first held entry whose look-up fails holds a negative price in
\* the requested field, and then returns no sum; negative prices of unheld
\* symbols or in the other field are not detected: when every held entry's
\* requested price is a number >= 0 the call returns the sum.
C8_NegativePriceOnLookup ==
    (IsValuation /\ ShapesValid) =>
        /\ last.err = "InvalidPrice"
              <=> (SomeEntryFails(last.key)
                     /\ EntryKind(FirstFailing(last.key), last.key) = "InvalidPrice")
        /\ last.err = "InvalidPrice" => ~last.returned
        /\ ~SomeEntryFails(last.key) => last.err = "ok" /\ last.returned

\* the second of two held entries has a negative requested price
C8_Witness ==
    /\ IsValuation /\ last.err = "InvalidPrice"
    /\ Len(last.before) = 2
    /\ EntryKind(1, last.key) = "ok"

\* C9 as stated: on inputs of the agreed shapes, Value fails with
\* UnknownSymbol whenever some held symbol is absent from the catalog and
\* with MissingField whenever some held symbol's record lacks the requested
\* field; no total is returned and the ledger and catalog are unchanged.
C9_KindByAnyEntry ==
    (IsValuation /\ ShapesValid) =>
        /\ (\E i \in DOMAIN last.before : EntryKind(i, last.key) = "UnknownSymbol")
              => last.err = "UnknownSymbol" /\ ~last.returned /\ Untouched
        /\ (\E i \in DOMAIN last.before : EntryKind(i, last.key) = "MissingField")
              => last.err = "MissingField" /\ ~last.returned /\ Untouched

\* C9, amended: on inputs of the agreed shapes, Value over a ledger with a
\* held symbol that is absent from the catalog, or whose record lacks the
\* requested field, fails and returns no total, and leaves the ledger and
\* the catalog unchanged; the failure kind is that of the first held entry,
\* in ledger order, whose look-up fails: UnknownSymbol when that symbol is
\* absent from the catalog, MissingField when its record lacks the field.
C9_KindByFirstFailingEntry ==
    (IsValuation /\ ShapesValid /\ SomeEntryFails(last.key)) =>
        /\ last.err = EntryKind(FirstFailing(last.key), last.key)
        /\ ~last.returned
        /\ Untouched

\* a held symbol is absent from the catalog, behind an entry that is priced
C9_Witness ==
    /\ IsValuation /\ last.err = "UnknownSymbol" /\ ~last.returned
    /\ Len(last.before) = 2
    /\ EntryKind(1, last.key) = "ok"

\* C10: for a non-empty valid ledger whose held symbols are all priced (both
\* fields numbers >= 0) and whose cost basis is exactly 0, ROI fails with
\* DivisionByZero and returns no number, also when the current value is 0.
C10_ZeroCostBasisRaises ==
    ( /\ last.op = "roi" /\ ShapesValid /\ last.before # <<>>
      /\ ~SomeEntryFails("initial_price") /\ ~SomeEntryFails("current_price")
      /\ \A i \in DOMAIN last.before :
            last.catalog[last.before[i].symbol].fields["initial_price"].v = 0 )
    => last.err = "DivisionByZero" /\ ~last.returned

\* cost basis and current value of a two-entry ledger are both 0
C10_Witness ==
    /\ last.op = "roi" /\ last.err = "DivisionByZero"
    /\ Len(last.before) = 2
    /\ portfolio_value(last.before, last.catalog, "current_price") = Returns(Rat(0, 1))
    /\ portfolio_cost_basis(last.before, last.catalog, "initial_price") = Returns(Rat(0, 1))

\* C11: on an empty ledger and a catalog of the agreed shape, the empty
\* catalog included, ROI fails with EmptyPortfolio, while Value and CostBasis
\* succeed and return 0.
C11_EmptyLedger ==
    (last.op # "none" /\ last.before = <<>> /\ ShapesValid) =>
        /\ last.op = "roi" => last.err = "EmptyPortfolio" /\ ~last.returned
        /\ IsValuation => last.err = "ok" /\ last.returned /\ last.value = Rat(0, 1)

\* ROI was asked for an empty ledger against the empty catalog
C11_Witness ==
    /\ last.op = "roi" /\ last.err = "EmptyPortfolio"
    /\ last.before = <<>> /\ last.catalog = NoDict

\* the sum of qty * price over the held entries, read off the catalog
RECURSIVE HeldSum(_, _)
HeldSum(i, k) ==
    IF i > Len(last.before) THEN 0
    ELSE last.before[i].qty * last.catalog[last.before[i].symbol].fields[k].v
            + HeldSum(i + 1, k)

\* the fraction r is the number n
RatIs(r, n) == r.den # 0 /\ r.num = n * r.den

\* the sign of the fraction r: -1, 0 or 1
RatSign(r) ==
    IF r.num = 0 THEN 0
    ELSE IF (r.num > 0) = (r.den > 0) THEN 1 ELSE 0 - 1

TestStocks == [s \in {"AAPL"} |-> Record(150, 165)]

\* C12: for a non-empty valid ledger whose held symbols are all priced and
\* whose cost basis is not 0, ROI returns (current - initial) / initial * 100
\* with current the Value at current prices and initial the CostBasis; it is
\* positive exactly when current > initial, negative exactly when
\* current < initial and 0 when they are equal.  Ledger {AAPL: 3} at initial
\* 150 and current 165 gives 495, 450 and ROI 10.
C12_RoiFormula ==
    /\ ( /\ last.op = "roi" /\ ShapesValid /\ last.before # <<>>
         /\ ~SomeEntryFails("initial_price") /\ ~SomeEntryFails("current_price")
         /\ HeldSum(1, "initial_price") # 0 )
       => LET current == HeldSum(1, "current_price")
              initial == HeldSum(1, "initial_price")
          IN  /\ last.err = "ok" /\ last.returned
              /\ portfolio_value(last.before, last.catalog, "current_price")
                    = Returns(Rat(current, 1))
              /\ portfolio_cost_basis(last.before, last.catalog, "initial_price")
                    = Returns(Rat(initial, 1))
              /\ last.value.den = initial
              /\ last.value.num = (current - initial) * 100
              /\ RatSign(last.value) = 1 <=> current > initial
              /\ RatSign(last.value) = 0 - 1 <=> current < initial
              /\ RatSign(last.value) = 0 <=> current = initial
    /\ portfolio_value(<<[symbol |-> "AAPL", qty |-> 3]>>, TestStocks, "current_price")
          = Returns(Rat(495, 1))
    /\ portfolio_cost_basis(<<[symbol |-> "AAPL", qty |-> 3]>>, TestStocks, "initial_price")
          = Returns(Rat(450, 1))
    /\ RatIs(roi_percent(<<[symbol |-> "AAPL", qty |-> 3]>>, TestStocks).value, 10)

\* ROI of a two-entry ledger that has lost value
C12_Witness ==
    /\ last.op = "roi" /\ last.returned
    /\ Len(last.before) = 2
    /\ RatSign(last.value) = 0 - 1

IsPositive(d) == \A i \in DOMAIN d : d[i].qty > 0

\* C14: for any stored rows (zero or negative shares, blank symbols and
\* repeated symbols included) a load either fails as a whole and leaves the
\* session ledger as it was, or replaces it by a ledger in which every entry
\* has a count > 0 and no symbol is entered twice; so the session ledger
\* satisfies the ledger invariant in every state, is one of the ledgers Buy
\* and Sell are checked from, and no later valuation rejects a holding.
C14_LoadedLedgerValid ==
    /\ IsPositive(portfolio) /\ NoDuplicates(portfolio)
    /\ portfolio \in ValidPortfolios
    /\ last.op = "load" =>
          /\ last.err # "ok" => portfolio = last.before
          /\ last.err = "ok" => portfolio = load_portfolio(last.file).portfolio
          /\ last.err # "ok" <=>
                ( \/ ~({"symbol", "shares"} \subseteq last.file.fieldnames)
                  \/ \E i \in DOMAIN last.file.rows :
                        /\ ~last.file.rows[i].shares.isint
                        /\ StripUpper(last.file.rows[i].symbol) # ""
                        /\ \A j \in 1 .. (i - 1) :
                              \/ last.file.rows[j].shares.isint
                              \/ StripUpper(last.file.rows[j].symbol) = "" )
    /\ last.op \in {"value", "cost_basis", "roi"} => last.err # "InvalidHolding"

\* a file with a repeated symbol whose second row has no shares was loaded
C14_Witness ==
    /\ last.op = "load" /\ last.err = "ok"
    /\ Len(last.file.rows) = 2
    /\ StripUpper(last.file.rows[1].symbol) = StripUpper(last.file.rows[2].symbol)
    /\ last.file.rows[1].shares.n > 0
    /\ last.file.rows[2].shares.n <= 0
    /\ portfolio # <<>>

\* C15: in the CLI loop, after a Buy (choice 2) or Sell (choice 3) that
\* completes without error the session ledger reflects the transaction: the
\* symbol's count is the former count plus (Buy) or minus (Sell) qty, and
\* every other holding is still present with its count unchanged.
C15_MenuTradeApplied ==
    (last.op \in {"buy", "sell"} /\ last.err = "ok") =>
        LET held == Get(last.before, last.symbol, 0)
            now  == IF last.op = "buy" THEN held + last.qty ELSE held - last.qty
        IN  /\ Get(portfolio, last.symbol, 0) = now
            /\ OthersSame(last.before, portfolio, last.symbol)

\* C16: with a fixed catalog and a ledger that starts empty and is changed
\* only by Buy and Sell, every held symbol is a key of the catalog in every
\* reachable state, so Value, CostBasis and ROI never fail with UnknownSymbol.
C16_HeldSymbolsListed ==
    /\ stocks = last.catalog \/ last = NoCall
    /\ Keys(portfolio) \subseteq DOMAIN stocks
    /\ \A k \in PriceKeys :
           portfolio_value(portfolio, stocks, k).err # "UnknownSymbol"
    /\ portfolio_cost_basis(portfolio, stocks, "initial_price").err # "UnknownSymbol"
    /\ roi_percent(portfolio, stocks).err # "UnknownSymbol"

\* shares are held in a session whose catalog does not list every symbol,
\* after a Buy of an unlisted symbol was refused
C16_Witness ==
    /\ portfolio # <<>>
    /\ DOMAIN stocks # Symbols
    /\ \E c \in {last, prev} :
           c.op = "buy" /\ c.symbol \notin DOMAIN stocks /\ c.err = "UnknownSymbol"

\* the ledger holding q shares of s and nothing else
Only(s, q) == <<[symbol |-> s, qty |-> q]>>

\* what valuing ledger p at field k of the call's catalog returns
ValueOf(p, k) == portfolio_valueDouble(p, last.catalog, k).value

\* the price of s at field k in the call's catalog
PriceOf(s, k) == last.catalog[s].fields[k].v

\* q * price is a float: the product is not rounded
ExactProduct(q, price) == FloatMul(q, price) = TimesLimbs(q, price)

\* the sum of qty * price over ledger p from entry i on, without rounding
RECURSIVE ExactSum(_, _, _)
ExactSum(p, k, i) ==
    IF i > Len(p) THEN <<>>
    ELSE AddLimbs(TimesLimbs(p[i].qty, PriceOf(p[i].symbol, k)), ExactSum(p, k, i + 1))

\* valuing p carries no rounding error
ExactValue(p, k) == ValueOf(p, k) = ExactSum(p, k, 1)

\* v is a float that is not negative
IsFloat(v) ==
    /\ \A i \in DOMAIN v : v[i] \in 0 .. Base - 1
    /\ Norm(v) = v
    /\ RoundDouble(v, FALSE) = v

\* a valuation of a ledger holding one symbol returned
SingleValued ==
    /\ last.op \in {"value", "cost_basis"}
    /\ last.returned
    /\ Len(last.before) = 1

\* C13 as stated: valuing {A: m+n} equals valuing {A: m} plus valuing {A: n}
\* for all m, n >= 1, and a Buy(A, n) raises the Value by n times A's price.
C13_LinearInShares ==
    /\ SingleValued =>
           \A m, n \in 1 .. MaxLots :
               m + n = last.before[1].qty =>
                   last.value = FloatAdd(ValueOf(Only(last.before[1].symbol, m), last.key),
                                         ValueOf(Only(last.before[1].symbol, n), last.key))
    /\ (last.op = "buy" /\ last.err = "ok") =>
           \A k \in PriceKeys :
               ValueOf(portfolio, k)
                   = FloatAdd(ValueOf(last.before, k),
                              FloatMul(last.qty, PriceOf(last.symbol, k)))

\* C13 (amended): Value and CostBasis are computed in float arithmetic and
\* are linear in share counts where no rounding occurs.  Valuing {A: m+n}
\* equals the float sum of valuing {A: m} and {A: n} whenever m * price and
\* n * price are floats.  A Buy(A, n) takes the Value to the float sum of
\* the former Value and n * price when A was not held, and when A was held
\* if neither valuation nor n * price is rounded.  A Value is a float >= 0.
C13_LinearWhereExact ==
    /\ SingleValued =>
           \A m, n \in 1 .. MaxLots :
               ( /\ m + n = last.before[1].qty
                 /\ ExactProduct(m, PriceOf(last.before[1].symbol, last.key))
                 /\ ExactProduct(n, PriceOf(last.before[1].symbol, last.key)) )
               => last.value = FloatAdd(ValueOf(Only(last.before[1].symbol, m), last.key),
                                        ValueOf(Only(last.before[1].symbol, n), last.key))
    /\ (last.op = "buy" /\ last.err = "ok") =>
           \A k \in PriceKeys :
               ( \/ ~Has(last.before, last.symbol)
                 \/ /\ ExactValue(last.before, k)
                    /\ ExactValue(portfolio, k)
                    /\ ExactProduct(last.qty, PriceOf(last.symbol, k)) )
               => ValueOf(portfolio, k)
                      = FloatAdd(ValueOf(last.before, k),
                                 FloatMul(last.qty, PriceOf(last.symbol, k)))
    /\ last.op \in {"value", "cost_basis"} => last.returned /\ IsFloat(last.value)

\* a single holding was valued at a price that is not zero, its count splits
\* into two counts whose products with the price are floats, and the product
\* of the whole count is not a float
C13_Witness ==
    /\ SingleValued
    /\ PriceOf(last.before[1].symbol, last.key) # <<>>
    /\ ~ExactProduct(last.before[1].qty, PriceOf(last.before[1].symbol, last.key))
    /\ \E m, n \in 1 .. MaxLots :
           /\ m + n = last.before[1].qty
           /\ ExactProduct(m, PriceOf(last.before[1].symbol, last.key))
           /\ ExactProduct(n, PriceOf(last.before[1].symbol, last.key))

====
